---- MODULE Spec2Model ----
(***************************************************************************)
(* Activity tracker backend (src/main.py): two JSON documents on disk      *)
(* (activity types, activity records), each guarded by one lock, rewritten *)
(* whole through a temporary sibling, and a summary over closed records.   *)
(*                                                                         *)
(* Strings are sequences of one-character strings.  A timestamp string     *)
(* "YYYY-MM-DDTHH:MM:SS[Z]" is the record [date, time, z]: date is its     *)
(* first 10 characters, time the seconds within the day, z the suffix.     *)
(* An Optional[...] field is <<>> (None) or <<v>>.                         *)
(***************************************************************************)
EXTENDS Integers, Sequences, FiniteSets, TLC

\* ---------------------------------------------------------------- bounds
MaxTypes == 2
MaxActs == 2
MaxTick == 5
TicksPerSecond == 2
SecondsPerDay == 2
MaxFaults == 1

Threads == {1, 2}
Collections == {"types", "acts"}

\* ---------------------------------------------------------------- strings
Space == " "

\* str.lower() on one character
LowerChar(ch) ==
    CASE ch = "S" -> "s"
      [] ch = "R" -> "r"
      [] ch = "W" -> "w"
      [] OTHER -> ch

\* str.lower()
Lower(s) == [i \in 1..Len(s) |-> LowerChar(s[i])]

RECURSIVE LStrip(_)
LStrip(s) == IF s # <<>> /\ Head(s) = Space THEN LStrip(Tail(s)) ELSE s

RECURSIVE RStrip(_)
RStrip(s) ==
    IF s # <<>> /\ s[Len(s)] = Space THEN RStrip(SubSeq(s, 1, Len(s) - 1)) ELSE s

\* str.strip()
Strip(s) == RStrip(LStrip(s))

\* x.strip().lower()
Norm(s) == Lower(Strip(s))

\* ---------------------------------------------------------------- time
None == <<>>
Some(v) == <<v>>

\* datetime.utcnow().replace(microsecond=0): a clock reading in ticks, cut to
\* whole seconds
UtcNowSeconds(tick) == tick \div TicksPerSecond

\* datetime.isoformat() of a whole-second datetime
IsoFormat(sec) == [date |-> sec \div SecondsPerDay, time |-> sec % SecondsPerDay, z |-> FALSE]

\* s + "Z"
AppendZ(s) == [s EXCEPT !.z = TRUE]

\* s.replace("Z", "")
RemoveZ(s) == [s EXCEPT !.z = FALSE]

\* datetime.fromisoformat(s), as whole seconds; s carries no "Z"
FromIsoFormat(s) == s.date * SecondsPerDay + s.time

\* _iso_now()
IsoNow(tick) == AppendZ(IsoFormat(UtcNowSeconds(tick)))

\* s[0:10]
DateKey(s) == s.date

\* ---------------------------------------------------------------- files
\* A file on disk: absent, a complete JSON list, or bytes json.load cannot
\* read: "badjson" raises json.JSONDecodeError (an empty or cut-off text),
\* "badutf8" raises UnicodeDecodeError (bytes that are not UTF-8).
Missing == [kind |-> "missing", items |-> <<>>]
Json(items) == [kind |-> "json", items |-> items]
BadJson == [kind |-> "badjson", items |-> <<>>]
BadUtf8 == [kind |-> "badutf8", items |-> <<>>]
CorruptKinds == {"badjson", "badutf8"}

VARIABLES
    doc,     \* TYPES_FILE / ACTIVITIES_FILE
    tmp,     \* path + ".tmp"
    bak,     \* path + ".bak"
    lock,    \* _types_lock / _activities_lock: 0 when free, else the holding thread
    pc,      \* where each request thread is in its handler
    op,      \* the handler a thread runs and its arguments
    loc,     \* the handler's local list (items / activities)
    ret,     \* the value a writing handler will return once its write is done
    res,     \* the response sent by the step just taken (NoRes when it sent none)
    nextId,  \* uuid4(): ids handed out so far, per collection
    faults,  \* crashes, corruptions and failed writes so far
    recov,   \* the thread's _read_json took the JSONDecodeError branch
    created  \* create_activity_type calls that have returned a record

vars == <<doc, tmp, bak, lock, pc, op, loc, ret, res, nextId, faults, recov, created>>

NoOp == [name |-> "none"]
NoRes == [t |-> 0, op |-> NoOp, status |-> "none", value |-> <<>>]
\* thread t returns v
Ok(t, v) == [t |-> t, op |-> op[t], status |-> "ok", value |-> v]
\* thread t raises e
Err(t, e) == [t |-> t, op |-> op[t], status |-> e, value |-> <<>>]

Init ==
    /\ doc = [c \in Collections |-> Missing]
    /\ tmp = [c \in Collections |-> Missing]
    /\ bak = [c \in Collections |-> Missing]
    /\ lock = [c \in Collections |-> 0]
    /\ pc = [t \in Threads |-> "idle"]
    /\ op = [t \in Threads |-> NoOp]
    /\ loc = [t \in Threads |-> <<>>]
    /\ ret = [t \in Threads |-> <<>>]
    /\ res = NoRes
    /\ created = 0
    /\ nextId = [c \in Collections |-> 0]
    /\ faults = 0
    /\ recov = [t \in Threads |-> FALSE]

TypeOps == {"create", "update", "delete", "list_types"}
ActOps == {"start", "end", "active", "list_activities", "summary"}
Mutating == {"create", "update", "delete", "start", "end"}

\* the lock and file a handler uses
Coll(name) == IF name \in TypeOps THEN "types" ELSE "acts"

\* ---------------------------------------------------------------- inputs
\* ActivityTypeIn: both fields have min_length=1
TypePayloads ==
    { [activity_category |-> <<"S">>, activity_name |-> <<"r">>],
      [activity_category |-> <<" ", "s", " ">>, activity_name |-> <<"R">>],
      [activity_category |-> <<"S">>, activity_name |-> <<"w", " ">>],
      [activity_category |-> <<" ">>, activity_name |-> <<"w">>] }

\* ActivityStartIn: any two strings
StartPayloads ==
    { [activity_category |-> <<"s">>, activity_name |-> <<"r">>],
      [activity_category |-> <<" ", "w">>, activity_name |-> <<"r", " ">>],
      [activity_category |-> <<" ">>, activity_name |-> <<"r">>] }

Ticks == 0..MaxTick

\* ---------------------------------------------------------------- handler bodies
\* Each body maps the loaded list and the arguments to
\* [err: "" or the error raised, items: the list to write, ret: the return value].
Raise(e, items) == [err |-> e, items |-> items, ret |-> <<>>]
Return(items, value) == [err |-> "", items |-> items, ret |-> value]

\* faulty variant of SameType: the comparison keeps the case
SameTypeCaseSensitive(it, payload) ==
    /\ Strip(it.activity_category) = Strip(payload.activity_category)
    /\ Strip(it.activity_name) = Strip(payload.activity_name)

\* the duplicate test of create_activity_type and update_activity_type
SameType(it, payload) ==
    /\ Norm(it.activity_category) = Norm(payload.activity_category)
    /\ Norm(it.activity_name) = Norm(payload.activity_name)

\* first index whose record has this id, 0 when there is none
FirstIndex(items, id) ==
    IF \E i \in 1..Len(items) : items[i].id = id
    THEN CHOOSE i \in 1..Len(items) :
            /\ items[i].id = id
            /\ \A j \in 1..(i - 1) : items[j].id # id
    ELSE 0

CreateBody(items, payload, id) ==
    IF \E i \in 1..Len(items) : SameType(items[i], payload)
    THEN Raise("DuplicateError", items)
    ELSE LET new_item == [id |-> id,
                          activity_category |-> Strip(payload.activity_category),
                          activity_name |-> Strip(payload.activity_name)]
         IN Return(Append(items, new_item), new_item)

\* faulty variant of UpdateBody: the other records are not looked at
UpdateBodyUnchecked(items, type_id, payload) ==
    LET idx == FirstIndex(items, type_id) IN
    IF idx = 0 THEN Raise("NotFoundError", items)
    ELSE LET updated == [id |-> type_id,
                         activity_category |-> Strip(payload.activity_category),
                         activity_name |-> Strip(payload.activity_name)]
         IN Return([items EXCEPT ![idx] = updated], updated)

\* faulty variant of UpdateBody: the record itself counts as a duplicate
UpdateBodyIncludingSelf(items, type_id, payload) ==
    LET idx == FirstIndex(items, type_id) IN
    IF idx = 0 THEN Raise("NotFoundError", items)
    ELSE IF \E i \in 1..Len(items) : SameType(items[i], payload)
    THEN Raise("DuplicateError", items)
    ELSE LET updated == [id |-> type_id,
                         activity_category |-> Strip(payload.activity_category),
                         activity_name |-> Strip(payload.activity_name)]
         IN Return([items EXCEPT ![idx] = updated], updated)

UpdateBody(items, type_id, payload) ==
    LET idx == FirstIndex(items, type_id) IN
    IF idx = 0 THEN Raise("NotFoundError", items)
    ELSE IF \E i \in 1..Len(items) :
                items[i].id # type_id /\ SameType(items[i], payload)
    THEN Raise("DuplicateError", items)
    ELSE LET updated == [id |-> type_id,
                         activity_category |-> Strip(payload.activity_category),
                         activity_name |-> Strip(payload.activity_name)]
         IN Return([items EXCEPT ![idx] = updated], updated)

\* [it for it in items if it.get("id") != type_id]
RECURSIVE WithoutId(_, _)
WithoutId(items, id) ==
    IF items = <<>> THEN <<>>
    ELSE IF Head(items).id # id
         THEN <<Head(items)>> \o WithoutId(Tail(items), id)
         ELSE WithoutId(Tail(items), id)

DeleteBody(items, type_id) ==
    LET new_items == WithoutId(items, type_id) IN
    IF Len(new_items) = Len(items) THEN Raise("NotFoundError", items)
    ELSE Return(new_items, "ok")

\* faulty variant of IsOpen: no record is ever seen as open
IsOpenNever(a) == FALSE

\* a.get("end_time") in (None, "")
IsOpen(a) == a.end_time = None

\* faulty variant of StartBody: the new record replaces the list
StartBodyAfresh(activities, payload, id, tick) ==
    IF \E i \in 1..Len(activities) : IsOpen(activities[i])
    THEN Raise("ConflictError", activities)
    ELSE LET record == [id |-> id,
                        activity_category |-> Strip(payload.activity_category),
                        activity_name |-> Strip(payload.activity_name),
                        start_time |-> IsoNow(tick),
                        end_time |-> None,
                        duration_seconds |-> None]
         IN Return(<<record>>, record)

StartBody(activities, payload, id, tick) ==
    IF \E i \in 1..Len(activities) : IsOpen(activities[i])
    THEN Raise("ConflictError", activities)
    ELSE LET record == [id |-> id,
                        activity_category |-> Strip(payload.activity_category),
                        activity_name |-> Strip(payload.activity_name),
                        start_time |-> IsoNow(tick),
                        end_time |-> None,
                        duration_seconds |-> None]
         IN Return(Append(activities, record), record)

\* faulty variant of EndBody: a closed record is closed again
EndBodyAgain(activities, id, tick) ==
    LET idx == FirstIndex(activities, id) IN
    IF idx = 0 THEN Raise("NotFoundError", activities)
    ELSE LET end_time == UtcNowSeconds(tick)
             updated == [activities[idx] EXCEPT
                            !.end_time = Some(AppendZ(IsoFormat(end_time))),
                            !.duration_seconds =
                                Some(end_time - FromIsoFormat(RemoveZ(activities[idx].start_time)))]
         IN Return([activities EXCEPT ![idx] = updated], updated)

\* faulty variant of EndBody: end_time is set, duration_seconds is not
EndBodyNoDuration(activities, id, tick) ==
    LET idx == FirstIndex(activities, id) IN
    IF idx = 0 THEN Raise("NotFoundError", activities)
    ELSE IF activities[idx].end_time # None
    THEN Raise("AlreadyEndedError", activities)
    ELSE LET end_time == UtcNowSeconds(tick)
             updated == [activities[idx] EXCEPT
                            !.end_time = Some(AppendZ(IsoFormat(end_time)))]
         IN Return([activities EXCEPT ![idx] = updated], updated)

\* int((end_time - start).total_seconds())
Duration(end_sec, start_time) == end_sec - FromIsoFormat(RemoveZ(start_time))

EndBody(activities, id, tick) ==
    LET idx == FirstIndex(activities, id) IN
    IF idx = 0 THEN Raise("NotFoundError", activities)
    ELSE IF activities[idx].end_time # None
    THEN Raise("AlreadyEndedError", activities)
    ELSE LET end_time == UtcNowSeconds(tick)
             updated == [activities[idx] EXCEPT
                            !.end_time = Some(AppendZ(IsoFormat(end_time))),
                            !.duration_seconds =
                                Some(Duration(end_time, activities[idx].start_time))]
         IN Return([activities EXCEPT ![idx] = updated], updated)

\* faulty variant of ActiveBody: the last record is returned, open or not
ActiveBodyLast(activities) ==
    IF activities # <<>> THEN Some(activities[Len(activities)]) ELSE None

\* get_active_activity: the first record with no end_time, or None
ActiveBody(activities) ==
    IF \E i \in 1..Len(activities) : activities[i].end_time = None
    THEN Some(activities[CHOOSE i \in 1..Len(activities) :
                /\ activities[i].end_time = None
                /\ \A j \in 1..(i - 1) : activities[j].end_time # None])
    ELSE None

\* not a.get("end_time") or not a.get("duration_seconds"): the record is skipped
Skipped(a) ==
    \/ a.end_time = None
    \/ a.duration_seconds = None
    \/ a.duration_seconds[1] = 0

\* the literal "other"
Other == <<"o", "t", "h", "e", "r">>

\* a.get("activity_category", "other"): the default is used when the key is
\* missing, not when its value is empty
CategoryOf(a) ==
    IF "activity_category" \in DOMAIN a THEN a.activity_category ELSE Other

\* faulty variant of Accumulate: the date is taken from end_time
AccumulateByEndDate(agg, a) ==
    IF Skipped(a) THEN agg
    ELSE LET date_key == DateKey(a.end_time[1])
             cat == CategoryOf(a)
             day == IF date_key \in DOMAIN agg THEN agg[date_key] ELSE <<>>
             old == IF cat \in DOMAIN day THEN day[cat] ELSE 0
             new_day == [k \in DOMAIN day \cup {cat} |->
                            IF k = cat THEN old + a.duration_seconds[1] ELSE day[k]]
         IN [d \in DOMAIN agg \cup {date_key} |->
                IF d = date_key THEN new_day ELSE agg[d]]

\* one pass of the loop of get_summary over record a
Accumulate(agg, a) ==
    IF Skipped(a) THEN agg
    ELSE LET date_key == DateKey(a.start_time)
             cat == CategoryOf(a)
             day == IF date_key \in DOMAIN agg THEN agg[date_key] ELSE <<>>
             old == IF cat \in DOMAIN day THEN day[cat] ELSE 0
             new_day == [k \in DOMAIN day \cup {cat} |->
                            IF k = cat THEN old + a.duration_seconds[1] ELSE day[k]]
         IN [d \in DOMAIN agg \cup {date_key} |->
                IF d = date_key THEN new_day ELSE agg[d]]

RECURSIVE Aggregate(_, _)
Aggregate(agg, activities) ==
    IF activities = <<>> THEN agg
    ELSE Aggregate(Accumulate(agg, Head(activities)), Tail(activities))

\* sorted(keys)
RECURSIVE Sorted(_)
Sorted(keys) ==
    IF keys = {} THEN <<>>
    ELSE LET m == CHOOSE x \in keys : \A y \in keys : x <= y
         IN <<m>> \o Sorted(keys \ {m})

SummaryBody(activities) ==
    LET agg == Aggregate(<<>>, activities)
    IN [dates |-> Sorted(DOMAIN agg), data |-> agg]

\* ---------------------------------------------------------------- requests
Ids(c) == 1..(IF c = "types" THEN MaxTypes ELSE MaxActs)

CreateCalls == {[name |-> "create", payload |-> p] : p \in TypePayloads}
UpdateCalls == {[name |-> "update", id |-> i, payload |-> p] :
                    i \in Ids("types"), p \in TypePayloads}
DeleteCalls == {[name |-> "delete", id |-> i] : i \in Ids("types")}
StartCalls == {[name |-> "start", payload |-> p] : p \in StartPayloads}
EndCalls == {[name |-> "end", id |-> i] : i \in Ids("acts")}
ReadCalls(names) == {[name |-> n] : n \in names}

TypeCalls == CreateCalls \cup UpdateCalls \cup DeleteCalls \cup ReadCalls({"list_types"})
ActCalls == StartCalls \cup EndCalls
                \cup ReadCalls({"active", "list_activities", "summary"})

\* the with block ends right after the read
ReadOnly(name) == name \in {"list_types", "list_activities", "summary"}

\* _read_json(path, []) on the file d with backup file b.  A missing file
\* gives the default; a readable one its list; json.JSONDecodeError is caught:
\* the file is moved to .bak (moved = FALSE: the move fails, which is
\* swallowed) and the default returned; UnicodeDecodeError is not caught.
ReadJson(d, b, moved) ==
    CASE d.kind = "missing" ->
            [exc |-> "", value |-> <<>>, caught |-> FALSE, doc |-> d, bak |-> b]
      [] d.kind = "json" ->
            [exc |-> "", value |-> d.items, caught |-> FALSE, doc |-> d, bak |-> b]
      [] d.kind = "badjson" ->
            [exc |-> "", value |-> <<>>, caught |-> TRUE,
             doc |-> IF moved THEN Missing ELSE d, bak |-> IF moved THEN d ELSE b]
      [] OTHER ->
            [exc |-> "UnicodeDecodeError", value |-> <<>>, caught |-> FALSE,
             doc |-> d, bak |-> b]

\* faulty variant of LockFree: the lock never makes a thread wait
LockAlwaysFree(c) == TRUE

\* Lock.acquire(): the lock can be taken
LockFree(c) == lock[c] = 0

\* with _types_lock: / with _activities_lock: the lock is taken and the
\* collection read; an exception of the read leaves the handler, which
\* releases the lock.
Enter(t) ==
    LET c == Coll(op[t].name) IN
    /\ pc[t] = "acquire"
    /\ LockFree(c)
    /\ \E moved \in BOOLEAN :
        LET r == ReadJson(doc[c], bak[c], moved) IN
        /\ doc[c].kind # "badjson" => moved
        /\ doc' = [doc EXCEPT ![c] = r.doc]
        /\ bak' = [bak EXCEPT ![c] = r.bak]
        /\ IF r.exc # ""
           THEN /\ pc' = [pc EXCEPT ![t] = "idle"]
                /\ res' = Err(t, r.exc)
                /\ op' = [op EXCEPT ![t] = NoOp]
                /\ UNCHANGED <<lock, loc, recov>>
           ELSE /\ pc' = [pc EXCEPT ![t] = "body"]
                /\ loc' = [loc EXCEPT ![t] = r.value]
                /\ recov' = [recov EXCEPT ![t] = r.caught]
                /\ lock' = IF ReadOnly(op[t].name) THEN lock ELSE [lock EXCEPT ![c] = t]
                /\ res' = NoRes
                /\ UNCHANGED op
    /\ UNCHANGED <<tmp, ret, nextId, faults, created>>

\* what the handler's body computes from the loaded list
BodyOf(o, items, id, tick) ==
    CASE o.name = "create" -> CreateBody(items, o.payload, id)
      [] o.name = "update" -> UpdateBody(items, o.id, o.payload)
      [] o.name = "delete" -> DeleteBody(items, o.id)
      [] o.name = "start" -> StartBody(items, o.payload, id, tick)
      [] o.name = "end" -> EndBody(items, o.id, tick)
      [] o.name = "active" -> Return(items, ActiveBody(items))
      [] o.name = "summary" -> Return(items, SummaryBody(items))
      [] OTHER -> Return(items, items)

\* requests in flight that may still draw an id of collection c
Drawing(c) ==
    Cardinality({u \in Threads :
        pc[u] \in {"acquire", "body"} /\ op[u].name \in {"create", "start"}
            /\ Coll(op[u].name) = c})

\* requests in flight on collection c
InFlight(c) == {u \in Threads : pc[u] # "idle" /\ Coll(op[u].name) = c}

\* A request arrives: the handler is entered.  The ids of a collection are
\* capped: a Create or Start is admitted while ids remain for it; once they
\* are used up, one that the collection as it stands refuses (it draws no id)
\* is admitted alone, with no other request on the collection in flight.
Call(t, calls) ==
    /\ pc[t] = "idle"
    /\ \E o \in calls :
        LET c == Coll(o.name)
            cap == Cardinality(Ids(c))
        IN
        /\ ~(nextId[c] >= cap /\ Drawing(c) > 0)
        /\ o.name \in {"create", "start"} =>
                \/ nextId[c] + Drawing(c) < cap
                \/ InFlight(c) = {} /\ BodyOf(o, doc[c].items, 0, 0).err # ""
        /\ op' = [op EXCEPT ![t] = o]
    /\ pc' = [pc EXCEPT ![t] = "acquire"]
    /\ res' = NoRes
    /\ UNCHANGED <<doc, tmp, bak, lock, loc, ret, nextId, faults, recov, created>>

\* faulty variant of Body: an exception leaves the handler with the lock held
BodyKeepingLock(t) ==
    LET c == Coll(op[t].name) IN
    /\ pc[t] = "body"
    /\ \E tick \in Ticks :
        LET r == BodyOf(op[t], loc[t], nextId[c] + 1, tick) IN
        /\ tick # 0 => op[t].name \in {"start", "end"}
        /\ IF r.err # ""
           THEN /\ res' = Err(t, r.err)
                /\ pc' = [pc EXCEPT ![t] = "idle"]
                /\ op' = [op EXCEPT ![t] = NoOp]
                /\ loc' = [loc EXCEPT ![t] = <<>>]
                /\ recov' = [recov EXCEPT ![t] = FALSE]
                /\ UNCHANGED <<nextId, ret, lock>>
           ELSE IF op[t].name \in Mutating
           THEN /\ ret' = [ret EXCEPT ![t] = <<r.ret>>]
                /\ pc' = [pc EXCEPT ![t] = "write"]
                /\ loc' = [loc EXCEPT ![t] = r.items]
                /\ nextId' = IF op[t].name \in {"create", "start"}
                             THEN [nextId EXCEPT ![c] = @ + 1] ELSE nextId
                /\ res' = NoRes
                /\ UNCHANGED <<lock, op, recov>>
           ELSE /\ res' = Ok(t, r.ret)
                /\ pc' = [pc EXCEPT ![t] = "idle"]
                /\ op' = [op EXCEPT ![t] = NoOp]
                /\ lock' = IF lock[c] = t THEN [lock EXCEPT ![c] = 0] ELSE lock
                /\ loc' = [loc EXCEPT ![t] = <<>>]
                /\ recov' = [recov EXCEPT ![t] = FALSE]
                /\ UNCHANGED <<nextId, ret>>
    /\ UNCHANGED <<doc, tmp, bak, faults, created>>

\* The handler's body up to its write: it raises (the lock is released), or
\* returns (a read), or goes on to _write_json with the new list.
Body(t) ==
    LET c == Coll(op[t].name) IN
    /\ pc[t] = "body"
    /\ \E tick \in Ticks :
        LET r == BodyOf(op[t], loc[t], nextId[c] + 1, tick) IN
        /\ tick # 0 => op[t].name \in {"start", "end"}
        /\ IF r.err # ""
           THEN /\ res' = Err(t, r.err)
                /\ pc' = [pc EXCEPT ![t] = "idle"]
                /\ op' = [op EXCEPT ![t] = NoOp]
                /\ lock' = [lock EXCEPT ![c] = 0]
                /\ loc' = [loc EXCEPT ![t] = <<>>]
                /\ recov' = [recov EXCEPT ![t] = FALSE]
                /\ UNCHANGED <<nextId, ret>>
           ELSE IF op[t].name \in Mutating
           THEN /\ ret' = [ret EXCEPT ![t] = <<r.ret>>]
                /\ pc' = [pc EXCEPT ![t] = "write"]
                /\ loc' = [loc EXCEPT ![t] = r.items]
                /\ nextId' = IF op[t].name \in {"create", "start"}
                             THEN [nextId EXCEPT ![c] = @ + 1] ELSE nextId
                /\ res' = NoRes
                /\ UNCHANGED <<lock, op, recov>>
           ELSE /\ res' = Ok(t, r.ret)
                /\ pc' = [pc EXCEPT ![t] = "idle"]
                /\ op' = [op EXCEPT ![t] = NoOp]
                /\ lock' = IF lock[c] = t THEN [lock EXCEPT ![c] = 0] ELSE lock
                /\ loc' = [loc EXCEPT ![t] = <<>>]
                /\ recov' = [recov EXCEPT ![t] = FALSE]
                /\ UNCHANGED <<nextId, ret>>
    /\ UNCHANGED <<doc, tmp, bak, faults, created>>

\* faulty variant of OpenTmp: the document itself is opened for writing
OpenInPlace(t) ==
    /\ pc[t] = "write"
    /\ doc' = [doc EXCEPT ![Coll(op[t].name)] = [kind |-> "partial", items |-> <<>>]]
    /\ pc' = [pc EXCEPT ![t] = "dump"]
    /\ res' = NoRes
    /\ UNCHANGED <<tmp, bak, lock, op, loc, ret, nextId, faults, recov, created>>

\* _write_json: tmp_path.open("w") truncates the temporary file
OpenTmp(t) ==
    /\ pc[t] = "write"
    /\ tmp' = [tmp EXCEPT ![Coll(op[t].name)] = [kind |-> "partial", items |-> <<>>]]
    /\ pc' = [pc EXCEPT ![t] = "dump"]
    /\ res' = NoRes
    /\ UNCHANGED <<doc, bak, lock, op, loc, ret, nextId, faults, recov, created>>

\* _write_json: json.dump writes the whole list and the file is closed
Dump(t) ==
    /\ pc[t] = "dump"
    /\ tmp' = [tmp EXCEPT ![Coll(op[t].name)] = Json(loc[t])]
    /\ pc' = [pc EXCEPT ![t] = "replace"]
    /\ res' = NoRes
    /\ UNCHANGED <<doc, bak, lock, op, loc, ret, nextId, faults, recov, created>>

\* the handler returns ret[t] after its write: the lock is released
Finish(t) ==
    /\ lock' = [lock EXCEPT ![Coll(op[t].name)] = 0]
    /\ res' = Ok(t, ret[t][1])
    /\ created' = IF op[t].name = "create" THEN created + 1 ELSE created
    /\ pc' = [pc EXCEPT ![t] = "idle"]
    /\ op' = [op EXCEPT ![t] = NoOp]
    /\ loc' = [loc EXCEPT ![t] = <<>>]
    /\ ret' = [ret EXCEPT ![t] = <<>>]
    /\ recov' = [recov EXCEPT ![t] = FALSE]

\* _write_json: tmp_path.replace(path); then the handler returns
Replace(t) ==
    LET c == Coll(op[t].name) IN
    /\ pc[t] = "replace"
    /\ doc' = [doc EXCEPT ![c] = tmp[c]]
    /\ tmp' = [tmp EXCEPT ![c] = Missing]
    /\ Finish(t)
    /\ UNCHANGED <<bak, nextId, faults>>

\* _write_json from its first line to its last, when nothing fails and the
\* process does not die in between: OpenTmp, Dump and Replace as one step
Write(t) ==
    LET c == Coll(op[t].name) IN
    /\ pc[t] = "write"
    /\ doc' = [doc EXCEPT ![c] = Json(loc[t])]
    /\ tmp' = [tmp EXCEPT ![c] = Missing]
    /\ Finish(t)
    /\ UNCHANGED <<bak, nextId, faults>>

\* a request thread's step when no fault can strike
ThreadStep(t) ==
    \/ Enter(t)
    \/ Body(t)
    \/ Write(t)

\* a request thread's step when the write can be cut short
SlowStep(t) ==
    \/ Enter(t)
    \/ Body(t)
    \/ OpenTmp(t)
    \/ Dump(t)
    \/ Replace(t)

\* ---------------------------------------------------------------- faults
\* faulty variant of WriteFail: the error is swallowed and the handler returns
WriteFailSilently(t) ==
    /\ faults < MaxFaults
    /\ pc[t] \in {"write", "dump", "replace"}
    /\ faults' = faults + 1
    /\ Finish(t)
    /\ UNCHANGED <<doc, tmp, bak, nextId>>

\* An OSError in _write_json (open, write or rename fails): it leaves the
\* handler through the with block; the temporary file stays as it is.
WriteFail(t) ==
    /\ faults < MaxFaults
    /\ pc[t] \in {"write", "dump", "replace"}
    /\ faults' = faults + 1
    /\ res' = Err(t, "OSError")
    /\ pc' = [pc EXCEPT ![t] = "idle"]
    /\ op' = [op EXCEPT ![t] = NoOp]
    /\ lock' = [lock EXCEPT ![Coll(op[t].name)] = 0]
    /\ loc' = [loc EXCEPT ![t] = <<>>]
    /\ ret' = [ret EXCEPT ![t] = <<>>]
    /\ recov' = [recov EXCEPT ![t] = FALSE]
    /\ UNCHANGED <<doc, tmp, bak, nextId, created>>

\* The process dies and is started again: threads and locks are gone, the
\* files stay.
Crash ==
    /\ faults < MaxFaults
    /\ faults' = faults + 1
    /\ pc' = [t \in Threads |-> "idle"]
    /\ op' = [t \in Threads |-> NoOp]
    /\ loc' = [t \in Threads |-> <<>>]
    /\ ret' = [t \in Threads |-> <<>>]
    /\ res' = NoRes
    /\ recov' = [t \in Threads |-> FALSE]
    /\ lock' = [c \in Collections |-> 0]
    /\ UNCHANGED <<doc, tmp, bak, nextId, created>>

\* The document is damaged from outside the program.
Corrupt(c) ==
    /\ faults < MaxFaults
    /\ doc[c].kind = "json"
    /\ faults' = faults + 1
    /\ \E k \in {BadJson, BadUtf8} : doc' = [doc EXCEPT ![c] = k]
    /\ res' = NoRes
    /\ UNCHANGED <<tmp, bak, lock, pc, op, loc, ret, nextId, recov, created>>

\* ---------------------------------------------------------------- specifications
\* one request at a time on the activity collection
NextActs == Call(1, ActCalls) \/ ThreadStep(1)
SpecActs == Init /\ [][NextActs]_vars

\* Start (of one activity), End and GetActive requests from every thread at once
LifeCalls ==
    {[name |-> "start",
      payload |-> [activity_category |-> <<"s">>, activity_name |-> <<"r">>]]}
        \cup EndCalls \cup ReadCalls({"active"})
NextLife == \E t \in Threads : Call(t, LifeCalls) \/ ThreadStep(t)
SpecLife == Init /\ [][NextLife]_vars

\* every request on the type collection, from every thread at once
NextTypes == \E t \in Threads : Call(t, TypeCalls) \/ ThreadStep(t)
SpecTypes == Init /\ [][NextTypes]_vars

\* Create requests only, from every thread at once
NextCreate == \E t \in Threads : Call(t, CreateCalls) \/ ThreadStep(t)
SpecCreate == Init /\ [][NextCreate]_vars

\* the type collection under failing writes, crashes and outside damage
NextStore ==
    \/ \E t \in Threads :
        \/ Call(t, CreateCalls \cup DeleteCalls \cup ReadCalls({"list_types"}))
        \/ SlowStep(t)
        \/ WriteFail(t)
    \/ Crash
    \/ Corrupt("types")
SpecStore == Init /\ [][NextStore]_vars

\* the activity collection under failing writes, crashes and outside damage
NextRecords ==
    \/ \E t \in Threads :
        \/ Call(t, LifeCalls \ ReadCalls({"active"}))
        \/ ThreadStep(t)
        \/ WriteFail(t)
    \/ Crash
    \/ Corrupt("acts")
SpecRecords == Init /\ [][NextRecords]_vars

\* requests on both collections, from every thread at once
BothCalls ==
    {[name |-> "create",
      payload |-> [activity_category |-> <<"S">>, activity_name |-> <<"r">>]],
     [name |-> "start",
      payload |-> [activity_category |-> <<"s">>, activity_name |-> <<"r">>]]}
        \cup {[name |-> "delete", id |-> 1], [name |-> "end", id |-> 1]}
        \cup ReadCalls({"list_types", "active"})
NextBoth == \E t \in Threads : Call(t, BothCalls) \/ ThreadStep(t)
SpecBoth == Init /\ [][NextBoth]_vars

\* The same under fair scheduling: a thread that can go on does (the server's
\* worker threads run), and a thread waiting for a lock that is released
\* again and again gets it at some time.
SpecFair ==
    /\ Init
    /\ [][NextBoth]_vars
    /\ \A t \in Threads :
        SF_vars(Enter(t)) /\ WF_vars(Body(t)) /\ WF_vars(Write(t))

\* ---------------------------------------------------------------- properties
\* the records of a collection as its document holds them
Records(c) == doc[c].items

\* the records with no end_time
OpenRecords(items) == {i \in 1..Len(items) : items[i].end_time = None}

\* thread t takes its Body step in this transition
TakesBody(t) == pc[t] = "body" /\ pc'[t] # "body" /\ faults' = faults

\* thread t finishes its write in this transition
TakesWrite(t) == pc[t] \in {"write", "replace"} /\ pc'[t] = "idle" /\ res'.status = "ok"

\* C1: in every state reached by any interleaving of Start and End requests,
\* at most one activity record has no end_time.
C1_AtMostOneOpen == Cardinality(OpenRecords(Records("acts"))) <= 1

\* C1 witness: a second record is open beside a closed one, and a Start has
\* just been refused.
C1_Witness ==
    /\ Len(Records("acts")) >= 2
    /\ Cardinality(OpenRecords(Records("acts"))) = 1
    /\ res.status = "ConflictError"

\* C2: a Start that runs while the collection holds an open record is refused
\* with ConflictError, and the document is left exactly as it was.
C2_StartRefusedWhileOpen ==
    [][\A t \in Threads :
        (TakesBody(t) /\ op[t].name = "start" /\ OpenRecords(Records("acts")) # {})
            => (res'.status = "ConflictError" /\ res'.t = t /\ doc' = doc)]_vars

\* C2 witness: a Start was refused and the collection still holds its open record.
C2_Witness ==
    /\ res.status = "ConflictError"
    /\ res.op.name = "start"
    /\ OpenRecords(Records("acts")) # {}

\* C3: an End of a record whose end_time is set is refused with
\* AlreadyEndedError, and the document (so the record's end_time and
\* duration_seconds) is left exactly as it was.
C3_EndRefusedWhenEnded ==
    [][\A t \in Threads :
        (TakesBody(t) /\ op[t].name = "end"
            /\ \E i \in 1..Len(Records("acts")) :
                    /\ Records("acts")[i].id = op[t].id
                    /\ Records("acts")[i].end_time # None)
            => (res'.status = "AlreadyEndedError" /\ res'.t = t /\ doc' = doc)]_vars

\* C3 witness: an End was refused as already ended; the record is closed.
C3_Witness ==
    /\ res.status = "AlreadyEndedError"
    /\ \E i \in 1..Len(Records("acts")) :
            /\ Records("acts")[i].id = res.op.id
            /\ Records("acts")[i].end_time # None
            /\ Records("acts")[i].duration_seconds # None

\* C4: every closed record's duration_seconds is the difference in whole
\* seconds between its recorded end_time and start_time, and is never negative,
\* whatever the clock read at Start and at End.
C4_DurationIsDeltaAndNonNegative ==
    \A i \in 1..Len(Records("acts")) :
        LET a == Records("acts")[i] IN
        a.end_time # None =>
            /\ a.duration_seconds # None
            /\ a.duration_seconds[1] =
                    FromIsoFormat(RemoveZ(a.end_time[1])) - FromIsoFormat(RemoveZ(a.start_time))
            /\ a.duration_seconds[1] >= 0

\* two strings are equal once trimmed, letter case aside
EqualTrimmedIgnoringCase(x, y) ==
    LET u == Strip(x)
        v == Strip(y)
    IN /\ Len(u) = Len(v)
       /\ \A i \in 1..Len(u) : LowerChar(u[i]) = LowerChar(v[i])

\* a record of the type collection matches the payload on both fields
Matches(it, payload) ==
    /\ EqualTrimmedIgnoringCase(it.activity_category, payload.activity_category)
    /\ EqualTrimmedIgnoringCase(it.activity_name, payload.activity_name)

\* C5: a Create whose payload matches an existing record on both fields, once
\* trimmed and letter case aside, is refused with DuplicateError and leaves the
\* document unchanged; any other Create goes on to append exactly one record
\* that carries the trimmed fields and an id no record of the collection has.
C5_CreateRefusesDuplicateElseAppends ==
    [][\A t \in Threads :
        /\ (TakesBody(t) /\ op[t].name = "create") =>
                IF \E i \in 1..Len(Records("types")) :
                        Matches(Records("types")[i], op[t].payload)
                THEN res'.status = "DuplicateError" /\ res'.t = t /\ doc' = doc
                ELSE pc'[t] = "write" /\ doc' = doc
        /\ (TakesWrite(t) /\ op[t].name = "create") =>
                \E id \in 1..nextId["types"] :
                    LET new_item ==
                            [id |-> id,
                             activity_category |-> Strip(op[t].payload.activity_category),
                             activity_name |-> Strip(op[t].payload.activity_name)]
                    IN /\ \A i \in 1..Len(Records("types")) : Records("types")[i].id # id
                       /\ doc'["types"] = Json(Append(Records("types"), new_item))
                       /\ res'.value = new_item]_vars

\* C5 witness: after ("S", "r") is stored, Create(" s ", "R") has just been
\* refused as a duplicate.
C5_Witness ==
    /\ res.status = "DuplicateError"
    /\ res.op.name = "create"
    /\ res.op.payload = [activity_category |-> <<" ", "s", " ">>, activity_name |-> <<"R">>]
    /\ \E i \in 1..Len(Records("types")) :
            /\ Records("types")[i].activity_category = <<"S">>
            /\ Records("types")[i].activity_name = <<"r">>

\* every thread is between requests
AllReturned == \A t \in Threads : pc[t] = "idle"

\* C6: once every concurrent Create has returned, the collection holds as many
\* records as Creates succeeded (it started empty) and no two records share an id.
C6_NoLostCreateNoSharedId ==
    AllReturned =>
        /\ Len(Records("types")) = created
        /\ \A i, j \in 1..Len(Records("types")) :
                i # j => Records("types")[i].id # Records("types")[j].id

\* C6 witness: two Creates have succeeded and every thread has returned.
C6_Witness ==
    /\ AllReturned
    /\ created >= 2
    /\ Len(Records("types")) >= 2

\* thread t takes the lock and reads its collection in this transition
TakesEnter(t) == pc[t] = "acquire" /\ pc'[t] # "acquire" /\ faults' = faults

\* C7: a Load that finds a document it cannot deserialize returns the empty
\* list without raising, having moved the document to the backup or left it in
\* place; and the Create that follows leaves a valid document holding exactly
\* its new record.
C7_CorruptDocumentRecovered ==
    [][\A t \in Threads :
        LET c == Coll(op[t].name) IN
        /\ (TakesEnter(t) /\ doc[c].kind \in CorruptKinds) =>
                /\ pc'[t] = "body"
                /\ loc'[t] = <<>>
                /\ res'.status = "none"
                /\ \/ doc'[c] = Missing /\ bak'[c] = doc[c]
                   \/ doc'[c] = doc[c] /\ bak'[c] = bak[c]
        /\ (TakesWrite(t) /\ op[t].name = "create" /\ recov[t]) =>
                doc'[c] = Json(<<res'.value>>)]_vars

\* C8: _write_json completes the temporary file before it renames it, and no
\* step, a crash or a failed write included, leaves in the canonical place
\* anything but the document that was there or the complete new list (damage
\* from outside and the move of a damaged document to its backup aside); the
\* canonical document is never a partly written one.
C8_CanonicalOldOrNew ==
    [][/\ \A t \in Threads : pc[t] = "replace" => tmp[Coll(op[t].name)] = Json(loc[t])
       /\ \A c \in Collections :
            /\ doc'[c].kind # "partial"
            /\ \/ doc'[c] = doc[c]
               \/ \E t \in Threads :
                    /\ pc[t] = "replace"
                    /\ Coll(op[t].name) = c
                    /\ doc'[c] = Json(loc[t])
               \/ doc[c].kind = "json" /\ doc'[c].kind \in CorruptKinds
               \/ doc[c].kind = "badjson" /\ doc'[c] = Missing /\ bak'[c] = doc[c]]_vars

\* C8 witness: the process died in the middle of a write: the temporary file
\* is cut off and orphaned, the canonical document is the complete earlier one.
C8_Witness ==
    /\ AllReturned
    /\ faults = 1
    /\ res = NoRes
    /\ tmp["types"].kind = "partial"
    /\ doc["types"].kind = "json"
    /\ Len(Records("types")) >= 1

\* the record has both end_time and duration_seconds
Closed(a) == a.end_time # None /\ a.duration_seconds # None

\* C9: Summarize counts a record exactly when its end_time and
\* duration_seconds are both present, whatever the duration: every such
\* record's date and category are in the result, and every date and category
\* of the result come from such a record.
C9_SummaryCountsExactlyClosed ==
    (res.op.name = "summary" /\ res.status = "ok") =>
        LET data == res.value.data
            items == Records("acts")
        IN /\ \A i \in 1..Len(items) :
                Closed(items[i]) =>
                    /\ DateKey(items[i].start_time) \in DOMAIN data
                    /\ items[i].activity_category
                            \in DOMAIN data[DateKey(items[i].start_time)]
           /\ \A d \in DOMAIN data : \A c \in DOMAIN data[d] :
                \E i \in 1..Len(items) :
                    /\ Closed(items[i])
                    /\ DateKey(items[i].start_time) = d
                    /\ items[i].activity_category = c

\* the sum of duration_seconds over the records of items at the indices in S
RECURSIVE SumDurations(_, _)
SumDurations(items, S) ==
    IF S = {} THEN 0
    ELSE LET i == CHOOSE x \in S : TRUE
         IN items[i].duration_seconds[1] + SumDurations(items, S \ {i})

\* data[d][c], 0 when the result has no such entry
Entry(data, d, c) ==
    IF d \in DOMAIN data /\ c \in DOMAIN data[d] THEN data[d][c] ELSE 0

\* C10: for every date and category, the summary's entry is the sum of
\* duration_seconds over the closed records whose start_time begins with that
\* date and whose category is that category; the end date plays no part.
C10_SummarySumsByStartDate ==
    (res.op.name = "summary" /\ res.status = "ok") =>
        LET data == res.value.data
            items == Records("acts")
            dates == DOMAIN data
                        \cup {DateKey(items[i].start_time) : i \in 1..Len(items)}
                        \cup {DateKey(items[i].end_time[1]) :
                                i \in {j \in 1..Len(items) : items[j].end_time # None}}
            cats == {items[i].activity_category : i \in 1..Len(items)}
                        \cup UNION {DOMAIN data[d] : d \in DOMAIN data}
        IN \A d \in dates : \A c \in cats :
                Entry(data, d, c) =
                    SumDurations(items,
                        {i \in 1..Len(items) :
                            /\ Closed(items[i])
                            /\ DateKey(items[i].start_time) = d
                            /\ items[i].activity_category = c})

\* C10 witness: a summary over two closed records of one date and category,
\* one of them ending on a later date, whose entry is the sum of both.
C10_Witness ==
    /\ res.op.name = "summary"
    /\ res.status = "ok"
    /\ \E i, j \in 1..Len(Records("acts")) :
        LET a == Records("acts")[i]
            b == Records("acts")[j]
        IN /\ i # j
           /\ Closed(a) /\ Closed(b)
           /\ a.duration_seconds[1] > 0 /\ b.duration_seconds[1] > 0
           /\ DateKey(a.start_time) = DateKey(b.start_time)
           /\ a.activity_category = b.activity_category
           /\ DateKey(a.end_time[1]) # DateKey(a.start_time)
           /\ res.value.data[DateKey(a.start_time)][a.activity_category]
                = a.duration_seconds[1] + b.duration_seconds[1]

\* C11: in a summary, every counted record whose category is the empty string
\* has its duration under the category "other" of its start date, and the
\* result has no entry for the empty category.
C11_EmptyCategoryUnderOther ==
    (res.op.name = "summary" /\ res.status = "ok") =>
        \A i \in 1..Len(Records("acts")) :
            LET a == Records("acts")[i] IN
            (Closed(a) /\ a.duration_seconds[1] # 0 /\ a.activity_category = <<>>) =>
                /\ DateKey(a.start_time) \in DOMAIN res.value.data
                /\ Other \in DOMAIN res.value.data[DateKey(a.start_time)]
                /\ <<>> \notin DOMAIN res.value.data[DateKey(a.start_time)]

\* C12: whatever the interleaving of Create, Update and Delete requests, no
\* two records of the type collection are equal on both fields once trimmed,
\* letter case aside.
C12_NoTwoTypesAlike ==
    \A i, j \in 1..Len(Records("types")) :
        i # j => ~Matches(Records("types")[i], Records("types")[j])

\* C12 witness: the collection holds two records and an Update that would
\* have made them alike has just been refused.
C12_Witness ==
    /\ Len(Records("types")) = 2
    /\ res.status = "DuplicateError"
    /\ res.op.name = "update"

\* C13: an Update of an id no record has is refused with NotFoundError; one
\* whose payload matches a record with another id is refused with
\* DuplicateError; both leave the document unchanged.  Any other Update, one
\* to the record's own values included, goes on to write: the record with
\* that id gets the trimmed fields and keeps its id and its place, and every
\* other record stays as it was.
C13_UpdateNotFoundDuplicateElseInPlace ==
    [][\A t \in Threads :
        LET items == Records("types") IN
        /\ (TakesBody(t) /\ op[t].name = "update") =>
                IF \A i \in 1..Len(items) : items[i].id # op[t].id
                THEN res'.status = "NotFoundError" /\ res'.t = t /\ doc' = doc
                ELSE IF \E i \in 1..Len(items) :
                            items[i].id # op[t].id /\ Matches(items[i], op[t].payload)
                THEN res'.status = "DuplicateError" /\ res'.t = t /\ doc' = doc
                ELSE pc'[t] = "write" /\ doc' = doc
        /\ (TakesWrite(t) /\ op[t].name = "update") =>
                LET updated == [id |-> op[t].id,
                                activity_category |-> Strip(op[t].payload.activity_category),
                                activity_name |-> Strip(op[t].payload.activity_name)]
                    new_items == doc'["types"].items
                IN /\ doc'["types"].kind = "json"
                   /\ Len(new_items) = Len(items)
                   /\ \E i \in 1..Len(items) : items[i].id = op[t].id
                   /\ \A i \in 1..Len(items) :
                        new_items[i] = IF items[i].id = op[t].id THEN updated ELSE items[i]
                   /\ res'.value = updated]_vars

\* C13 witness: an Update has just rewritten the first of two records; it
\* kept its place and the second record is beside it.
C13_Witness ==
    /\ res.status = "ok"
    /\ res.op.name = "update"
    /\ Len(Records("types")) = 2
    /\ Records("types")[1] = res.value
    /\ Records("types")[2].id # res.value.id

\* the document of collection c is damaged from outside in this transition
OutsideDamage(c) == doc[c].kind = "json" /\ doc'[c].kind \in CorruptKinds

\* C14: no step of a request, a failed write or a crash removes a record from
\* the activity collection or moves it: a record stays as it is, or goes from
\* open to closed keeping its id, category, name and start_time; a closed
\* record never changes again.  (Damage to the document from outside the
\* program is no step of an operation.)
C14_OpenThenClosedOnce ==
    [][~OutsideDamage("acts") =>
        \A i \in 1..Len(Records("acts")) :
            LET a == Records("acts")[i]
                new_items == doc'["acts"].items
            IN /\ i <= Len(new_items)
               /\ \/ new_items[i] = a
                  \/ /\ a.end_time = None
                     /\ new_items[i].end_time # None
                     /\ new_items[i].duration_seconds # None
                     /\ new_items[i] = [a EXCEPT
                            !.end_time = new_items[i].end_time,
                            !.duration_seconds = new_items[i].duration_seconds]]_vars

\* C14 witness: the collection holds two closed records, the second of which
\* an End has just closed.
C14_Witness ==
    /\ res.status = "ok"
    /\ res.op.name = "end"
    /\ Len(Records("acts")) = 2
    /\ Records("acts")[1].end_time # None
    /\ Records("acts")[2] = res.value
    /\ res.value.end_time # None

\* C15: in every state, each record of the activity collection has end_time
\* and duration_seconds both absent or both present.
C15_EndTimeAndDurationTogether ==
    \A i \in 1..Len(Records("acts")) :
        (Records("acts")[i].end_time = None) <=> (Records("acts")[i].duration_seconds = None)

\* C15 witness: a closed record with both fields beside an open one with neither.
C15_Witness ==
    \E i, j \in 1..Len(Records("acts")) :
        /\ Records("acts")[i].end_time # None
        /\ Records("acts")[i].duration_seconds # None
        /\ Records("acts")[j].end_time = None
        /\ Records("acts")[j].duration_seconds = None

\* C16: every record of the type collection, whatever accepted payload (each
\* field at least one character long, blanks included) Create or Update stored
\* it from, has a non-empty category and a non-empty name.
C16_StoredTypeFieldsNonEmpty ==
    \A i \in 1..Len(Records("types")) :
        /\ Records("types")[i].activity_category # <<>>
        /\ Records("types")[i].activity_name # <<>>

\* thread t is inside its handler's with block, after the read
InBlock(t) == pc[t] \in {"body", "write", "dump", "replace"} /\ op[t].name \in Mutating

\* C17: a mutating request that has reached its write ends in one of two
\* ways: it returns its result and the document holds its new list, or it
\* raises (the OSError of the failed write) and the document is as it was;
\* and from its read to its end nothing but its own completed write changes
\* the collection, so a failed request leaves the collection as it found it.
C17_FailedWriteReportedAndHarmless ==
    [][\A t \in Threads :
        LET c == Coll(op[t].name) IN
        /\ (pc[t] \in {"write", "dump", "replace"} /\ pc'[t] = "idle" /\ res'.t = t) =>
                \/ res'.status = "ok" /\ doc'[c] = Json(loc[t])
                \/ res'.status = "OSError" /\ doc' = doc /\ lock'[c] = 0
        /\ (InBlock(t) /\ ~OutsideDamage(c) /\ doc'[c].items # doc[c].items) =>
                TakesWrite(t)]_vars

\* C17 witness: a Create has just failed with the write's error; the document
\* is a valid one that still holds the earlier record and not the new one.
C17_Witness ==
    /\ res.status = "OSError"
    /\ res.op.name = "create"
    /\ doc["types"].kind = "json"
    /\ Len(Records("types")) = 1
    /\ nextId["types"] = 2
    /\ lock["types"] = 0

\* the threads between their read of collection c and the end of their write
\* (a handler that only reads leaves the with block right after its read)
InCycle(c) ==
    {t \in Threads :
        /\ Coll(op[t].name) = c
        /\ \/ pc[t] \in {"write", "dump", "replace"}
           \/ pc[t] = "body" /\ ~ReadOnly(op[t].name)}

\* C18: at no time are two requests on one collection both between their
\* read and the end of their write, and the one that is holds the lock; every
\* read returns the document as it stands, which changes only by the complete
\* write of the request in its cycle.
C18_StrictlySerialized ==
    /\ [](\A c \in Collections :
            /\ Cardinality(InCycle(c)) <= 1
            /\ \A t \in InCycle(c) : lock[c] = t)
    /\ [][\A c \in Collections :
            /\ \A t \in Threads :
                (TakesEnter(t) /\ Coll(op[t].name) = c) => loc'[t] = Records(c)
            /\ doc'[c] # doc[c] =>
                \E t \in InCycle(c) : TakesWrite(t) /\ doc'[c] = Json(loc[t])]_vars

\* C18 witness: a request waits for the lock of the collection while another
\* is between its read and its write of it.
C18_Witness ==
    \E t, u \in Threads :
        /\ pc[t] = "acquire" /\ op[t].name = "start"
        /\ pc[u] = "write" /\ op[u].name = "end"
        /\ InCycle("acts") = {u}

\* C19: GetActive returns a record exactly when the collection holds a record
\* with no end_time, the record returned is such a record, and the call
\* leaves every file as it was; so it returns a record exactly when a Start
\* on the same collection is refused with ConflictError.
C19_ActiveIffOpenRecord ==
    [][\A t \in Threads :
        (TakesBody(t) /\ op[t].name = "active") =>
            LET items == Records("acts") IN
            /\ res'.status = "ok" /\ res'.t = t
            /\ doc' = doc /\ tmp' = tmp /\ bak' = bak
            /\ IF OpenRecords(items) = {}
               THEN res'.value = None
               ELSE \E i \in OpenRecords(items) : res'.value = Some(items[i])
            /\ \A p \in StartPayloads :
                (res'.value # None) <=>
                    (StartBody(items, p, nextId["acts"] + 1, 0).err = "ConflictError")]_vars

\* C19 witness: GetActive has just returned the open record, the second of
\* the collection, the first being closed.
C19_Witness ==
    /\ res.op.name = "active"
    /\ res.status = "ok"
    /\ Len(Records("acts")) = 2
    /\ Records("acts")[1].end_time # None
    /\ res.value = Some(Records("acts")[2])

====
